---- MODULE Spec2Model ----
(***************************************************************************)
(* Model of the product ingestion pipeline: the field normalizers, the     *)
(* name inference engine and the promotion date parser of src/src/utils.py *)
(* and the ProductDataProcessor / ProductAPIClient of src/src/processor.py *)
(* and src/src/api_client.py.                                              *)
(*                                                                         *)
(* Python strings are sequences of one-character strings.  Python values   *)
(* are tagged records: None, NaN, Inf, Str(s), List(xs), PyInt(neg, ds),   *)
(* PyFloat(neg, ip, fp) (a number by the decimal digits of its integer and *)
(* fractional parts, so that 13-digit barcodes fit), Raise(e) (the         *)
(* exception that escaped the call).                                       *)
(***************************************************************************)
EXTENDS Integers, Sequences, FiniteSets, TLC

VARIABLES
    op,          \* the function or method called last ("none" before any call)
    arg,         \* the argument of the last call of a pure function
    ret,         \* what the last call returned (or Raise(e))
    input_rows,  \* number of data rows of the CSV file at self.input_path
    bad_stock_row, \* the row of the file whose stock cell is no number, 0: none
    df,          \* self.df: None, or the Frame of canonical records
    batches,     \* self.batches
    disk,        \* batches/batch_<k>.json: file number k -> content written
    http_log,    \* the PUT requests issued by the last method call, in order
    create_calls \* how many calls of create_batches in a row led to this state

vars == <<op, arg, ret, input_rows, bad_stock_row, df, batches, disk, http_log,
          create_calls>>

-----------------------------------------------------------------------------
(* Python values *)

None == [none |-> TRUE]
NaN == [nan |-> TRUE]
Str(s) == [str |-> s]
Raise(e) == [exc |-> e]
\* True / False
Bool(b) == [bool |-> b]
\* one of the unit types "UNI", "KG"
Enum(e) == [enum |-> e]
\* a DataFrame by its rows
Frame(rows) == [rows |-> rows]
\* the list object self.batches itself (create_batches returns it, not a copy)
SelfBatches == [self |-> "batches"]
\* a Python list
List(xs) == [list |-> xs]
\* float('inf')
Inf == [inf |-> TRUE]

IsNone(v) == v = None
IsNaN(v) == v = NaN
IsStr(v) == DOMAIN v = {"str"}
IsInt(v) == DOMAIN v = {"neg", "int"}
IsFloat(v) == DOMAIN v = {"neg", "ip", "fp"}
IsInf(v) == v = Inf
IsRaise(v) == DOMAIN v = {"exc"}

\* pandas.notnull / pandas.isnull on a scalar: None and NaN are null
pd_isnull(v) == IsNone(v) \/ IsNaN(v)
pd_notnull(v) == ~pd_isnull(v)

-----------------------------------------------------------------------------
(* Characters and strings *)

Digits == <<"0", "1", "2", "3", "4", "5", "6", "7", "8", "9">>
DigitSet == {Digits[i] : i \in 1..10}
LowerLetters ==
    {"a", "b", "c", "d", "e", "f", "g", "h", "i", "j", "k", "l", "m",
     "n", "o", "p", "q", "r", "s", "t", "u", "v", "w", "x", "y", "z"}
UpperLetters ==
    {"A", "B", "C", "D", "E", "F", "G", "H", "I", "J", "K", "L", "M",
     "N", "O", "P", "Q", "R", "S", "T", "U", "V", "W", "X", "Y", "Z"}
\* "a~" stands for the one character U+00E3 (a with tilde), "A~" for U+00C3
CaseTable ==
    <<<<"A", "a">>, <<"B", "b">>, <<"C", "c">>, <<"D", "d">>, <<"E", "e">>,
      <<"F", "f">>, <<"G", "g">>, <<"H", "h">>, <<"I", "i">>, <<"J", "j">>,
      <<"K", "k">>, <<"L", "l">>, <<"M", "m">>, <<"N", "n">>, <<"O", "o">>,
      <<"P", "p">>, <<"Q", "q">>, <<"R", "r">>, <<"S", "s">>, <<"T", "t">>,
      <<"U", "u">>, <<"V", "v">>, <<"W", "w">>, <<"X", "x">>, <<"Y", "y">>,
      <<"Z", "z">>, <<"A~", "a~">>>>

\* \w of the re module on the characters of the model
WordChars == DigitSet \cup LowerLetters \cup UpperLetters \cup {"_", "a~", "A~"}
CasedChars == {CaseTable[i][1] : i \in DOMAIN CaseTable}
               \cup {CaseTable[i][2] : i \in DOMAIN CaseTable}
LowerMap ==
    [c \in CasedChars |->
        IF \E i \in DOMAIN CaseTable : CaseTable[i][1] = c
        THEN CaseTable[CHOOSE i \in DOMAIN CaseTable : CaseTable[i][1] = c][2]
        ELSE c]
UpperMap ==
    [c \in CasedChars |->
        IF \E i \in DOMAIN CaseTable : CaseTable[i][2] = c
        THEN CaseTable[CHOOSE i \in DOMAIN CaseTable : CaseTable[i][2] = c][1]
        ELSE c]
DigitMap == [c \in DigitSet |-> CHOOSE d \in 0..9 : Digits[d + 1] = c]

IsDigit(c) == c \in DigitSet
DigitVal(c) == DigitMap[c]
IsSpace(c) == c = " "
IsWordChar(c) == c \in WordChars
LowerChar(c) == IF c \in CasedChars THEN LowerMap[c] ELSE c
UpperChar(c) == IF c \in CasedChars THEN UpperMap[c] ELSE c
\* str.lower(), str.upper()
lower(s) == [i \in DOMAIN s |-> LowerChar(s[i])]
upper(s) == [i \in DOMAIN s |-> UpperChar(s[i])]

\* unidecode(): transliteration to ASCII, character by character
UnidecodeChar(c) == IF c = "a~" THEN "a" ELSE IF c = "A~" THEN "A" ELSE c
unidecode(s) == [i \in DOMAIN s |-> UnidecodeChar(s[i])]

\* str(int) for a natural number
RECURSIVE NatToStr(_)
NatToStr(n) ==
    IF n < 10 THEN <<Digits[n + 1]>>
    ELSE Append(NatToStr(n \div 10), Digits[(n % 10) + 1])

\* int(s) for a string of ASCII digits
RECURSIVE StrToNat(_)
StrToNat(s) ==
    IF s = <<>> THEN 0
    ELSE 10 * StrToNat(SubSeq(s, 1, Len(s) - 1)) + DigitVal(s[Len(s)])

\* the digit string of length n that counts up from o + 1 (a leading 0, when
\* there is one, is no digit of the number)
DigitRun(n, o) == [i \in 1..n |-> Digits[((i + o) % 10) + 1]]

AllDigits(s) == \A i \in DOMAIN s : IsDigit(s[i])

\* the literal lit occurs in s starting at position p
MatchAt(s, p, lit) ==
    /\ p >= 1
    /\ p + Len(lit) - 1 <= Len(s)
    /\ \A i \in 1..Len(lit) : s[p + i - 1] = lit[i]

\* \b between s[p] and s[p+1] (p = 0: start of the string, p = Len(s): its end)
WordBoundary(s, p) ==
    LET before == p >= 1 /\ IsWordChar(s[p])
        after == p < Len(s) /\ IsWordChar(s[p + 1])
    IN before # after

\* str(name) of a column value of the name column: an empty cell is NaN
PyStr(v) == IF pd_isnull(v) THEN <<"n", "a", "n">> ELSE v.str

\* len(s.split()): the number of maximal runs of non-whitespace characters
SplitCount(s) ==
    Cardinality({i \in DOMAIN s : ~IsSpace(s[i]) /\ (i = 1 \/ IsSpace(s[i - 1]))})

-----------------------------------------------------------------------------
(* Numbers *)

RECURSIVE StripLeadingZeros(_)
StripLeadingZeros(ds) ==
    IF Len(ds) > 1 /\ ds[1] = "0" THEN StripLeadingZeros(Tail(ds))
    ELSE IF ds = <<>> THEN <<"0">> ELSE ds

RECURSIVE StripTrailingZeros(_)
StripTrailingZeros(ds) ==
    IF ds # <<>> /\ ds[Len(ds)] = "0"
    THEN StripTrailingZeros(SubSeq(ds, 1, Len(ds) - 1))
    ELSE ds

IsZeroDigits(ds) == \A i \in DOMAIN ds : ds[i] = "0"

\* the Python int with the given sign and decimal digits
PyInt(neg, ds) ==
    [neg |-> neg /\ ~IsZeroDigits(ds), int |-> StripLeadingZeros(ds)]

\* the float with the given sign, integer digits and fraction digits; equal
\* numbers are equal values (12.50 = 12.5, -0.0 = 0.0)
PyFloat(neg, ip, fp) ==
    [neg |-> neg /\ ~(IsZeroDigits(ip) /\ IsZeroDigits(fp)),
     ip |-> StripLeadingZeros(ip),
     fp |-> StripTrailingZeros(fp)]

\* the grammar [sign] digits ['.' digits] | [sign] '.' digits that float() and
\* pandas.to_numeric accept on the characters of the model; <<>> when s is not
\* of that form, else <<PyFloat>>
ParseDecimal(s) ==
    LET neg == s # <<>> /\ s[1] = "-"
        body == IF neg THEN Tail(s) ELSE s
        dots == {i \in DOMAIN body : body[i] = "."}
        dot == IF dots = {} THEN Len(body) + 1 ELSE CHOOSE i \in dots : TRUE
        ip == SubSeq(body, 1, dot - 1)
        fp == SubSeq(body, dot + 1, Len(body))
    IN IF /\ Cardinality(dots) <= 1
          /\ AllDigits(ip)
          /\ AllDigits(fp)
          /\ Len(ip) + Len(fp) >= 1
       THEN <<PyFloat(neg, ip, fp)>>
       ELSE <<>>

\* int(x): truncation toward zero of a float, the value of an int, the parse
\* of a string of digits with an optional sign
py_int(x) ==
    IF IsInt(x) THEN x
    ELSE IF IsFloat(x) THEN PyInt(x.neg, x.ip)
    ELSE IF IsInf(x) THEN Raise("OverflowError")
    ELSE IF IsStr(x) THEN
        LET neg == x.str # <<>> /\ x.str[1] = "-"
            body == IF neg THEN Tail(x.str) ELSE x.str
        IN IF body # <<>> /\ AllDigits(body) THEN PyInt(neg, body)
           ELSE Raise("ValueError")
    ELSE Raise("TypeError")

\* float(x)
py_float(x) ==
    IF IsFloat(x) \/ IsInf(x) \/ IsNaN(x) THEN x
    ELSE IF IsInt(x) THEN PyFloat(x.neg, x.int, <<>>)
    ELSE IF IsStr(x) THEN
        IF ParseDecimal(x.str) # <<>> THEN ParseDecimal(x.str)[1]
        ELSE Raise("ValueError")
    ELSE Raise("TypeError")

\* str(x) of a string, an int or a float below 1e16 (no exponent form)
py_str(x) ==
    IF IsStr(x) THEN x.str
    ELSE IF IsInt(x) THEN (IF x.neg THEN <<"-">> ELSE <<>>) \o x.int
    ELSE IF IsFloat(x) THEN
        (IF x.neg THEN <<"-">> ELSE <<>>) \o x.ip \o <<".">>
            \o (IF x.fp = <<>> THEN <<"0">> ELSE x.fp)
    ELSE IF IsInf(x) THEN <<"i", "n", "f">>
    ELSE IF IsNaN(x) THEN <<"n", "a", "n">>
    ELSE <<"N", "o", "n", "e">>

\* str.replace(old, new) for one-character old and new
replace(s, old, new) == [i \in DOMAIN s |-> IF s[i] = old THEN new ELSE s[i]]

\* pandas.to_numeric(s, errors='coerce') on a string
to_numeric(s) == IF ParseDecimal(s) = <<>> THEN NaN ELSE ParseDecimal(s)[1]

\* round(x, n) of a float whose fraction digit n + 1, if any, does not make an
\* exact tie: to the nearest
round_to(x, n) ==
    IF ~IsFloat(x) THEN x
    ELSE IF Len(x.fp) <= n THEN x
    ELSE
        LET kept == x.ip \o SubSeq(x.fp, 1, n)
            up == DigitVal(x.fp[n + 1]) >= 5
            ds == NatToStr(StrToNat(kept) + (IF up THEN 1 ELSE 0))
            padded == IF Len(ds) <= n
                      THEN [i \in 1..(n + 1 - Len(ds)) |-> "0"] \o ds ELSE ds
        IN PyFloat(x.neg, SubSeq(padded, 1, Len(padded) - n),
                   SubSeq(padded, Len(padded) - n + 1, Len(padded)))

round2(x) == round_to(x, 2)

\* x / 1000
DivideBy1000(x) ==
    LET padded == <<"0", "0", "0">> \o x.ip
    IN PyFloat(x.neg, SubSeq(padded, 1, Len(padded) - 3),
               SubSeq(padded, Len(padded) - 2, Len(padded)) \o x.fp)

-----------------------------------------------------------------------------
(* Field normalizers, src/src/utils.py:69-148 *)

\* str(barcode) in place of str(int(barcode))
float_to_string_no_truncation(barcode) ==
    IF pd_notnull(barcode) THEN List(<<py_str(barcode)>>) ELSE List(<<>>)

float_to_string(barcode) ==
    IF pd_notnull(barcode)
    THEN IF IsRaise(py_int(barcode)) THEN py_int(barcode)
         ELSE List(<<py_str(py_int(barcode))>>)
    ELSE List(<<>>)

EanLengths == {8, 12, 13}

\* re.match(r'^\d{n}$', s)
MatchDigits(s, n) == Len(s) = n /\ AllDigits(s)

format_to_ean(barcode) ==
    IF MatchDigits(barcode, 8) THEN List(<<barcode>>)
    ELSE IF MatchDigits(barcode, 12) THEN List(<<barcode>>)
    ELSE IF MatchDigits(barcode, 13) THEN List(<<barcode>>)
    ELSE List(<<>>)

\* the two .apply() passes of load_and_process over the barcode column
barcodes_column(barcode) ==
    LET x == float_to_string(barcode)
    IN IF IsRaise(x) THEN x
       ELSE IF x.list # <<>> THEN format_to_ean(x.list[1])
       ELSE List(<<>>)

\* the promotional price rounded to 2 decimal places like the regular price
promo_price_formater_rounded(price) ==
    IF pd_notnull(price) /\ price # Str(<<"0">>)
    THEN IF IsStr(price) THEN round2(to_numeric(replace(price.str, ",", ".")))
         ELSE Raise("AttributeError")
    ELSE None

\* the promotional price without the test price != '0'
promo_price_formater_zero_parsed(price) ==
    IF pd_notnull(price)
    THEN IF IsStr(price) THEN to_numeric(replace(price.str, ",", "."))
         ELSE Raise("AttributeError")
    ELSE None

\* price.replace(',', '.') needs a str: a number has no attribute 'replace'
promo_price_formater(price) ==
    IF pd_notnull(price) /\ price # Str(<<"0">>)
    THEN IF IsStr(price) THEN to_numeric(replace(price.str, ",", "."))
         ELSE Raise("AttributeError")
    ELSE None

price_formater(price) ==
    IF pd_notnull(price)
    THEN IF IsStr(price) THEN round2(to_numeric(replace(price.str, ",", ".")))
         ELSE Raise("AttributeError")
    ELSE None

internal_code_formater(code) ==
    IF pd_notnull(code) THEN Str(py_str(code)) ELSE None

stock_formater(price) ==
    IF pd_notnull(price) THEN py_float(price) ELSE None

-----------------------------------------------------------------------------
(* infer_unit_type, src/src/utils.py:6-32 *)

UnitTokens ==
    {<<"u", "n">>, <<"u", "n", "i", "d">>, <<"u", "n", "i", "d", "a", "d", "e">>,
     <<"p", "c", "t">>, <<"p", "a", "c", "o", "t", "e">>, <<"c", "x">>,
     <<"c", "a", "i", "x", "a">>, <<"f", "r", "a", "s", "c", "o">>,
     <<"g", "a", "l", "a", "o">>}
VolumeUnits == {<<"m", "l">>, <<"l">>}
WeightUnits == {<<"k", "g">>, <<"g">>}

\* re.search(r'\b(t1|t2|...)\b', s)
SearchWord(s, tokens) ==
    \E t \in tokens : \E p \in DOMAIN s :
        /\ MatchAt(s, p, t)
        /\ WordBoundary(s, p - 1)
        /\ WordBoundary(s, p + Len(t) - 1)

\* re.search(r'\d+(u1|u2|...)\b', s)
SearchNumberUnit(s, units) ==
    \E u \in units : \E p \in DOMAIN s :
        /\ IsDigit(s[p])
        /\ MatchAt(s, p + 1, u)
        /\ WordBoundary(s, p + Len(u))

clean_name(name) == unidecode(lower(PyStr(name)))

Rule1(s) == SearchWord(s, UnitTokens)
Rule2(s) == SearchNumberUnit(s, VolumeUnits)
Rule3(s) == SearchNumberUnit(s, WeightUnits)
Rule4(s) == SearchWord(s, WeightUnits)

\* the same chain with the standalone-weight test moved in front of the
\* number-and-weight-unit test
infer_unit_decision_weight_word_first(name) ==
    LET s == clean_name(name)
        words == SplitCount(s)
    IN IF Rule1(s) THEN <<1, "UNI">>
       ELSE IF Rule2(s) THEN <<2, "UNI">>
       ELSE IF Rule4(s) THEN <<4, "KG">>
       ELSE IF Rule3(s) THEN <<3, "UNI">>
       ELSE IF ~Rule4(s) \/ words >= 4 THEN <<5, "UNI">>
       ELSE <<6, "KG">>

\* <<the return statement taken (1..6, in source order), the value returned>>
infer_unit_decision(name) ==
    LET s == clean_name(name)
        words == SplitCount(s)
    IN IF Rule1(s) THEN <<1, "UNI">>
       ELSE IF Rule2(s) THEN <<2, "UNI">>
       ELSE IF Rule3(s) THEN <<3, "UNI">>
       ELSE IF Rule4(s) THEN <<4, "KG">>
       ELSE IF ~Rule4(s) \/ words >= 4 THEN <<5, "UNI">>
       ELSE <<6, "KG">>

infer_unit_type(name) == infer_unit_decision(name)[2]

-----------------------------------------------------------------------------
(* measure_parser, src/src/utils.py:34-67 *)

\* the last index of the run of digits that starts at p
DigitRunEnd(s, p) ==
    LET ends == {q \in p..Len(s) : \A i \in p..q : IsDigit(s[i])}
    IN CHOOSE q \in ends : \A r \in ends : r <= q

\* \d+(?:[\.,]\d+)? at p (s[p] a digit): the last index of the number
NumberEnd(s, p) ==
    LET e == DigitRunEnd(s, p)
    IN IF e + 2 <= Len(s) /\ s[e + 1] \in {".", ","} /\ IsDigit(s[e + 2])
       THEN DigitRunEnd(s, e + 2) ELSE e

\* \s* at p: the first index from p on that holds no whitespace
SkipSpaces(s, p) ==
    LET stops == {q \in p..(Len(s) + 1) : q = Len(s) + 1 \/ ~IsSpace(s[q])}
    IN CHOOSE q \in stops : \A r \in stops : q <= r

\* float(value.replace(',', '.')) of the number s[p..e]
NumberValue(s, p, e) == ParseDecimal(replace(SubSeq(s, p, e), ",", "."))[1]

\* (kg|g)\b at p: the length of the unit matched, 0 when none
WeightUnitLen(s, p) ==
    IF MatchAt(s, p, <<"k", "g">>) /\ WordBoundary(s, p + 1) THEN 2
    ELSE IF MatchAt(s, p, <<"g">>) /\ WordBoundary(s, p) THEN 1
    ELSE 0

\* (cm|m) at p: the length of the unit matched, 0 when none
LengthUnitLen(s, p) ==
    IF MatchAt(s, p, <<"c", "m">>) THEN 2
    ELSE IF MatchAt(s, p, <<"m">>) THEN 1
    ELSE 0

\* (?<!\d)(\d+(?:[\.,]\d+)?)\s*(kg|g)\b matches at p
WeightMatchAt(s, p) ==
    /\ IsDigit(s[p])
    /\ p = 1 \/ ~IsDigit(s[p - 1])
    /\ WeightUnitLen(s, SkipSpaces(s, NumberEnd(s, p) + 1)) > 0

\* (\d+(?:[\.,]\d+)?)\s*(cm|m) at p: 0 when no match, else the index after it
SegmentEnd(s, p) ==
    IF p > Len(s) \/ ~IsDigit(s[p]) THEN 0
    ELSE LET u == SkipSpaces(s, NumberEnd(s, p) + 1)
             n == LengthUnitLen(s, u)
         IN IF n = 0 THEN 0 ELSE u + n

\* \s*[/xX]\s* at p: 0 when no match, else the index after it
SeparatorEnd(s, p) ==
    LET q == SkipSpaces(s, p)
    IN IF q <= Len(s) /\ s[q] \in {"/", "x", "X"} THEN SkipSpaces(s, q + 1) ELSE 0

\* a separator and a segment follow index e - 1: the start of that segment,
\* else 0 (e = 0: nothing matched before)
NextSegmentStart(s, e) ==
    IF e = 0 THEN 0
    ELSE LET q == SeparatorEnd(s, e)
         IN IF q = 0 THEN 0
            ELSE IF SegmentEnd(s, q) = 0 THEN 0 ELSE q

\* the weight without the division of grams by 1000
weight_of_grams_unscaled(s) ==
    LET wstarts == {p \in DOMAIN s : WeightMatchAt(s, p)}
    IN IF wstarts = {} THEN None
       ELSE LET p == CHOOSE q \in wstarts : \A r \in wstarts : q <= r
            IN round_to(NumberValue(s, p, NumberEnd(s, p)), 3)

\* weight_match and the weight it gives
weight_of(s) ==
    LET wstarts == {p \in DOMAIN s : WeightMatchAt(s, p)}
    IN IF wstarts = {} THEN None
       ELSE LET p == CHOOSE q \in wstarts : \A r \in wstarts : q <= r
                e == NumberEnd(s, p)
                value == NumberValue(s, p, e)
            IN IF WeightUnitLen(s, SkipSpaces(s, e + 1)) = 1
               THEN round_to(DivideBy1000(value), 3)
               ELSE round_to(value, 3)

\* the number that starts at p, None for p = 0
NumberOrNone(s, p) == IF p = 0 THEN None ELSE NumberValue(s, p, NumberEnd(s, p))

\* the dimension pattern without its optional third segment
dimension_match_two_segments(s) ==
    LET dstarts == {p \in DOMAIN s : NextSegmentStart(s, SegmentEnd(s, p)) > 0}
    IN IF dstarts = {} THEN <<0, 0, 0>>
       ELSE LET d == CHOOSE q \in dstarts : \A r \in dstarts : q <= r
            IN <<d, NextSegmentStart(s, SegmentEnd(s, d)), 0>>

\* dimension_match: the starts of its first, second and third number, 0 for a
\* number that is absent
dimension_match(s) ==
    LET dstarts == {p \in DOMAIN s : NextSegmentStart(s, SegmentEnd(s, p)) > 0}
    IN IF dstarts = {} THEN <<0, 0, 0>>
       ELSE LET d == CHOOSE q \in dstarts : \A r \in dstarts : q <= r
                p2 == NextSegmentStart(s, SegmentEnd(s, d))
            IN <<d, p2, NextSegmentStart(s, SegmentEnd(s, p2))>>

normalized_name(name) == unidecode(lower(PyStr(name)))

measures_of(s, g) ==
    [length |-> NumberOrNone(s, g[1]),
     width |-> NumberOrNone(s, g[2]),
     height |-> NumberOrNone(s, g[3]),
     weight |-> weight_of(s)]

measure_parser(name) ==
    measures_of(normalized_name(name), dimension_match(normalized_name(name)))

-----------------------------------------------------------------------------
(* Promotion date parser, src/src/utils.py:150-209 *)

\* months_pt: the abbreviation of month number i is MonthsPt[i]
MonthsPt ==
    <<<<"J", "A", "N">>, <<"F", "E", "V">>, <<"M", "A", "R">>,
      <<"A", "B", "R">>, <<"M", "A", "I">>, <<"J", "U", "N">>,
      <<"J", "U", "L">>, <<"A", "G", "O">>, <<"S", "E", "T">>,
      <<"O", "U", "T">>, <<"N", "O", "V">>, <<"D", "E", "Z">>>>

\* format(n, '02d')
Pad2(n) == IF n < 10 THEN <<"0">> \o NatToStr(n) ELSE NatToStr(n)
\* format(n, '04d')
Pad4(n) ==
    LET ds == NatToStr(n)
    IN IF Len(ds) < 4 THEN [i \in 1..(4 - Len(ds)) |-> "0"] \o ds ELSE ds

\* the number of leading characters of s, at most n, that are digits
DigitPrefixLen(s, n) ==
    LET ok == {k \in 0..n : k <= Len(s) /\ \A i \in 1..k : IsDigit(s[i])}
    IN CHOOSE k \in ok : \A j \in ok : j <= k

\* re.compile(r'(\d{1,2})-([A-Z]{3})-(\d{2,4})', re.IGNORECASE).match(s):
\* <<>> when there is no match at the start of s, else <<day, month, year>>
DateRegexMatch(s) ==
    LET dl == DigitPrefixLen(s, 2)
        rest == SubSeq(s, dl + 1, Len(s))
        yl == DigitPrefixLen(SubSeq(rest, 6, Len(rest)), 4)
    IN IF /\ dl >= 1
          /\ Len(rest) >= 5
          /\ rest[1] = "-"
          /\ \A i \in 2..4 : rest[i] \in UpperLetters \cup LowerLetters
          /\ rest[5] = "-"
          /\ yl >= 2
       THEN <<SubSeq(s, 1, dl), SubSeq(rest, 2, 4), SubSeq(rest, 6, 5 + yl)>>
       ELSE <<>>

\* the match is made on date_str as written, without .upper()
ptbr_to_iso_format_case_sensitive(date_str) ==
    LET match == DateRegexMatch(date_str)
    IN IF match = <<>> THEN None
       ELSE
        LET day == match[1]
            month_abbr == match[2]
            year == IF Len(match[3]) = 2 THEN <<"2", "0">> \o match[3] ELSE match[3]
        IN IF ~\E i \in DOMAIN MonthsPt : MonthsPt[i] = month_abbr THEN None
           ELSE
            LET month == Pad2(CHOOSE i \in DOMAIN MonthsPt : MonthsPt[i] = month_abbr)
            IN Str(year \o <<"-">> \o month \o <<"-">> \o Pad2(StrToNat(day))
                   \o <<"T", "0", "0", ":", "0", "0", ":", "0", "0">>)

ptbr_to_iso_format(date_str) ==
    LET match == DateRegexMatch(upper(date_str))
    IN IF match = <<>> THEN None
       ELSE
        LET day == match[1]
            month_abbr == match[2]
            year == IF Len(match[3]) = 2 THEN <<"2", "0">> \o match[3] ELSE match[3]
        IN IF ~\E i \in DOMAIN MonthsPt : MonthsPt[i] = month_abbr THEN None
           ELSE
            LET month == Pad2(CHOOSE i \in DOMAIN MonthsPt : MonthsPt[i] = month_abbr)
            IN Str(year \o <<"-">> \o month \o <<"-">> \o Pad2(StrToNat(day))
                   \o <<"T", "0", "0", ":", "0", "0", ":", "0", "0">>)

IsLeapYear(y) == y % 4 = 0 /\ (y % 100 # 0 \/ y % 400 = 0)
DaysInMonth(y, mo) ==
    IF mo = 2 THEN (IF IsLeapYear(y) THEN 29 ELSE 28)
    ELSE IF mo \in {4, 6, 9, 11} THEN 30 ELSE 31

\* the digits of s at positions from..to, as a number; -1 when one is no digit
Field(s, from, to) ==
    IF AllDigits(SubSeq(s, from, to)) THEN StrToNat(SubSeq(s, from, to)) ELSE -1

\* datetime.fromisoformat(s).isoformat() for the two forms every Python 3
\* version reads alike, YYYY-MM-DD and YYYY-MM-DDTHH:MM:SS; Raise("ValueError")
\* for a string of neither form or with a field out of range
fromisoformat_isoformat(s) ==
    LET y == Field(s, 1, 4)
        mo == Field(s, 6, 7)
        d == Field(s, 9, 10)
        h == IF Len(s) = 10 THEN 0 ELSE Field(s, 12, 13)
        mi == IF Len(s) = 10 THEN 0 ELSE Field(s, 15, 16)
        sec == IF Len(s) = 10 THEN 0 ELSE Field(s, 18, 19)
    IN IF /\ Len(s) \in {10, 19}
          /\ s[5] = "-" /\ s[8] = "-"
          /\ Len(s) = 19 => (s[14] = ":" /\ s[17] = ":")
          /\ y >= 1
          /\ mo \in 1..12
          /\ d >= 1 /\ d <= DaysInMonth(y, mo)
          /\ h \in 0..23 /\ mi \in 0..59 /\ sec \in 0..59
       THEN Str(Pad4(y) \o <<"-">> \o Pad2(mo) \o <<"-">> \o Pad2(d) \o <<"T">>
                \o Pad2(h) \o <<":">> \o Pad2(mi) \o <<":">> \o Pad2(sec))
       ELSE Raise("ValueError")

\* str.split(sep): the segments of s between the occurrences of sep
split(s, sep) ==
    LET cuts == {i \in DOMAIN s : s[i] = sep}
        starts == {1} \cup {i + 1 : i \in cuts}
        EndOf(b) ==
            IF \E c \in cuts : c >= b
            THEN (CHOOSE c \in cuts : c >= b /\ \A c2 \in cuts : c2 >= b => c <= c2) - 1
            ELSE Len(s)
        Nth[n \in 1..Cardinality(starts)] ==
            CHOOSE b \in starts : Cardinality({b2 \in starts : b2 < b}) = n - 1
    IN [n \in 1..Cardinality(starts) |-> SubSeq(s, Nth[n], EndOf(Nth[n]))]

\* the (promo_start, promo_end) tuple
Pair(a, b) == [start |-> a, end |-> b]

\* try: ... except: None
OrNone(v) == IF IsRaise(v) THEN None ELSE v

\* both segments parsed inside one try block: a failure of either loses both
process_promo_dates_single_try(date) ==
    IF pd_isnull(date) \/ lower(py_str(date)) = <<"n", "a", "n">>
    THEN Pair(None, None)
    ELSE IF ~IsStr(date) THEN Raise("TypeError")
    ELSE IF \E i \in DOMAIN date.str : date.str[i] = "/" THEN
        LET date_segments == split(date.str, "/")
            a == fromisoformat_isoformat(date_segments[1])
            b == fromisoformat_isoformat(date_segments[2])
        IN IF IsRaise(a) \/ IsRaise(b) THEN Pair(None, None) ELSE Pair(a, b)
    ELSE Pair(None, ptbr_to_iso_format(date.str))

\* '/' in date needs a container: a number raises TypeError
process_promo_dates(date) ==
    IF pd_isnull(date) \/ lower(py_str(date)) = <<"n", "a", "n">>
    THEN Pair(None, None)
    ELSE IF ~IsStr(date) THEN Raise("TypeError")
    ELSE IF \E i \in DOMAIN date.str : date.str[i] = "/" THEN
        LET date_segments == split(date.str, "/")
        IN Pair(OrNone(fromisoformat_isoformat(date_segments[1])),
                OrNone(fromisoformat_isoformat(date_segments[2])))
    ELSE Pair(None, ptbr_to_iso_format(date.str))

-----------------------------------------------------------------------------
(* ProductDataProcessor, src/src/processor.py, and ProductAPIClient,       *)
(* src/src/api_client.py                                                   *)

BatchSize == 1000

\* df.replace({np.nan: None})
NanToNone(v) == IF IsNaN(v) THEN None ELSE v

\* the columns computed for one row, before NaN is replaced by None
row_fields(row, measures, dates) ==
    [internal_code |-> internal_code_formater(row.Codigo_interno),
     name |-> Str(PyStr(row.Nome)),
     unit_type |-> Enum(infer_unit_type(row.Nome)),
     price |-> price_formater(row.Preco_regular),
     visible |-> row.ativo,
     stock |-> stock_formater(row.estoque),
     barcodes |-> barcodes_column(row.Codigo_de_barras),
     promo_price |-> promo_price_formater(row.Promocao),
     weight |-> measures.weight,
     length |-> measures.length,
     width |-> measures.width,
     height |-> measures.height,
     promo_end_at |-> IF IsRaise(dates) THEN dates ELSE dates.end,
     promo_start_at |-> IF IsRaise(dates) THEN dates ELSE dates.start]

\* an exception raised for a column aborts the load; otherwise
\* df.replace({np.nan: None})
finish_record(fields) ==
    IF \E f \in DOMAIN fields : IsRaise(fields[f])
    THEN fields[CHOOSE f \in DOMAIN fields : IsRaise(fields[f])]
    ELSE [f \in DOMAIN fields |-> NanToNone(fields[f])]

\* the canonical record of one row of the frame read from the CSV file
\* (load_and_process, one row at a time); Raise(e) when a normalizer raises
build_record(row) ==
    finish_record(row_fields(row, measure_parser(row.Nome),
                             process_promo_dates(row.Data_termino_promocao)))

\* The rows of the CSV files: row i of every file is RowPool[i], cyclically,
\* with the row number as its internal code.
RowPool ==
    <<[Nome |-> Str(<<"A", "r", "r", "o", "z", " ", "5", "k", "g">>),
       Codigo_de_barras |-> PyFloat(FALSE, DigitRun(13, 0), <<>>),
       Promocao |-> Str(<<"0">>),
       Preco_regular |-> Str(<<"1", "2", ",", "5">>),
       ativo |-> Bool(TRUE),
       Codigo_interno |-> None,
       estoque |-> PyInt(FALSE, <<"1", "0">>),
       Data_termino_promocao |-> NaN],
      [Nome |-> Str(<<"Q", "u", "e", "i", "j", "o", " ", "K", "G">>),
       Codigo_de_barras |-> NaN,
       Promocao |-> Str(<<"9", ",", "9", "9", "9">>),
       Preco_regular |-> Str(<<"1", "0", ",", "9", "9", "9">>),
       ativo |-> Bool(FALSE),
       Codigo_interno |-> None,
       estoque |-> PyInt(FALSE, <<"0">>),
       Data_termino_promocao |-> Str(<<"3", "1", "-", "M", "A", "R", "-", "2", "4">>)],
      [Nome |-> Str(<<"T", "a", "p", "e", "t", "e", " ", "9", "c", "m", "x", "5", "c", "m">>),
       Codigo_de_barras |-> PyFloat(FALSE, DigitRun(8, 0), <<>>),
       Promocao |-> NaN,
       Preco_regular |-> Str(<<"x">>),
       ativo |-> Bool(TRUE),
       Codigo_interno |-> None,
       estoque |-> NaN,
       Data_termino_promocao |->
           Str(<<"2", "0", "2", "4", "-", "0", "3", "-", "0", "1", "/",
                 "2", "0", "2", "4", "-", "0", "3", "-", "3", "1">>)],
      [Nome |-> NaN,
       Codigo_de_barras |-> PyFloat(FALSE, DigitRun(5, 0), <<>>),
       Promocao |-> Str(<<"1", "9">>),
       Preco_regular |-> NaN,
       ativo |-> Bool(TRUE),
       Codigo_interno |-> None,
       estoque |-> PyInt(FALSE, <<"7">>),
       Data_termino_promocao |-> Str(<<"5", "-", "X", "Y", "Z", "-", "2", "4">>)],
      [Nome |-> Str(<<"S", "a", "b", "a~", "o", " ", "9", "0", "g">>),
       Codigo_de_barras |-> PyFloat(FALSE, DigitRun(12, 0), <<>>),
       Promocao |-> Str(<<"x">>),
       Preco_regular |-> Str(<<"1">>),
       ativo |-> Bool(TRUE),
       Codigo_interno |-> None,
       estoque |-> PyInt(FALSE, <<"3">>),
       Data_termino_promocao |-> Str(<<"x", "/", "2", "0", "2", "4", "-", "0", "3",
                                       "-", "3", "1">>)]>>

\* the records of the pool rows, computed once
PoolRecords == [k \in DOMAIN RowPool |-> build_record(RowPool[k])]

\* the same with the stock cell holding text that is no number
BadStockRecords ==
    [k \in DOMAIN RowPool |->
        build_record([RowPool[k] EXCEPT !.estoque = Str(<<"x">>)])]

\* what the column transformations make of row i of the file
row_record(i, bad) ==
    IF i = bad THEN BadStockRecords[((i - 1) % Len(RowPool)) + 1]
    ELSE PoolRecords[((i - 1) % Len(RowPool)) + 1]

\* pd.read_csv(self.input_path, sep=';') followed by the column transformations:
\* the frame of a file of n rows, or Raise(e) when a row makes a normalizer raise
processed_frame(n, bad) ==
    LET raising == {i \in 1..n : IsRaise(row_record(i, bad))}
    IN IF raising # {}
       THEN row_record(CHOOSE i \in raising : \A j \in raising : i <= j, bad)
       ELSE Frame([i \in 1..n |->
               [row_record(i, bad) EXCEPT
                   !.internal_code = internal_code_formater(PyInt(FALSE, NatToStr(i)))]])

\* the outcomes of load_and_process.  On a file without data rows line 51
\* assigns two columns from .apply(pd.Series) of an empty column, which has no
\* columns to give: pandas raises ValueError there or yields the empty frame,
\* by its version, and both outcomes are kept.
load_outcomes(n, bad) ==
    IF n = 0 THEN {Frame(<<>>), Raise("ValueError")}
    ELSE {processed_frame(n, bad)}

\* df[a:b] of a frame (0-based, end exclusive, clipped to the frame)
Slice(frame, a, b) ==
    SubSeq(frame, a + 1, IF b < Len(frame) THEN b ELSE Len(frame))

\* range(0, n, step)
Range(n, step) == [j \in 1..((n + step - 1) \div step) |-> (j - 1) * step]

\* the list left as it was, so that new batches come after the old ones
reset_batches_kept(bs) == bs

\* self.batches = []
reset_batches(bs) == <<>>

\* the test of the list taken as never true
no_batches_never(bs) == FALSE

\* not self.batches
no_batches(bs) == bs = <<>>

\* the loop of send_batches left at the first request that does not succeed
put_requests_until_failure(bs, outcome) ==
    LET failed == {i \in DOMAIN bs : outcome[i] # "200"}
        last == IF failed = {} THEN Len(bs)
                ELSE CHOOSE i \in failed : \A j \in failed : i <= j
    IN [i \in 1..last |-> [i |-> i, body |-> bs[i], outcome |-> outcome[i]]]

\* the loop over enumerate(self.batches, start=1): one PUT per batch, in list
\* order, whatever became of the requests before it
put_requests(bs, outcome) ==
    [i \in DOMAIN bs |-> [i |-> i, body |-> bs[i], outcome |-> outcome[i]]]

\* the slice taken one record short: df[i:i+999]
batch_at_short(frame, i) == [products |-> Slice(frame, i, i + BatchSize - 1)]

\* the batch built in the loop iteration with loop variable i
batch_at(frame, i) == [products |-> Slice(frame, i, i + BatchSize)]

\* files numbered from 0: i // 1000
file_number_from_zero(i) == i \div BatchSize

\* the number in the name of the file written in the iteration with variable i
file_number(i) == (i \div BatchSize) + 1

MaxRows == 2500
Margin == 1

\* the sizes of the CSV files: around the multiples of the batch size, and MaxRows
RowCounts ==
    {n \in 0..MaxRows :
        \/ n % BatchSize <= Margin
        \/ n % BatchSize >= BatchSize - Margin
        \/ n = MaxRows}

MaxCreateCalls == 2

\* the rows whose stock cell may be text: the first and the last of the file
BadRows(n) == {0} \cup ({1, n} \cap 1..n)

Outcomes == {"200", "not200", "exception"}

Init ==
    /\ op = "none"
    /\ arg = None
    /\ ret = None
    /\ input_rows \in RowCounts
    /\ bad_stock_row \in BadRows(input_rows)
    /\ df = None
    /\ batches = <<>>
    /\ disk = <<>>
    /\ http_log = <<>>
    /\ create_calls = 0

LoadAndProcess ==
    \E frame \in load_outcomes(input_rows, bad_stock_row) :
       /\ op' = "load_and_process"
       /\ IF IsRaise(frame)
          THEN ret' = frame /\ df' = df
          ELSE ret' = None /\ df' = frame
       /\ http_log' = <<>>
       /\ create_calls' = 0
       /\ UNCHANGED <<arg, input_rows, bad_stock_row, batches, disk>>

CreateBatches ==
    /\ op' = "create_batches"
    /\ IF df = None
       THEN \* self.batches = [] is done, then len(None) raises
            /\ batches' = reset_batches(batches)
            /\ ret' = Raise("TypeError")
            /\ disk' = disk
       ELSE LET offsets == Range(Len(df.rows), BatchSize)
                made == [j \in DOMAIN offsets |-> batch_at(df.rows, offsets[j])]
                files == {file_number(offsets[j]) : j \in DOMAIN offsets}
            IN /\ batches' = reset_batches(batches) \o made
               /\ ret' = SelfBatches
               /\ disk' = [f \in DOMAIN disk \cup files |->
                             IF f \in files
                             THEN made[CHOOSE j \in DOMAIN offsets :
                                          file_number(offsets[j]) = f
                                          /\ \A j2 \in DOMAIN offsets :
                                                file_number(offsets[j2]) = f => j2 <= j]
                             ELSE disk[f]]
    /\ http_log' = <<>>
    /\ create_calls' = IF create_calls < MaxCreateCalls
                       THEN create_calls + 1 ELSE create_calls
    /\ UNCHANGED <<arg, input_rows, bad_stock_row, df>>

SendBatches ==
    /\ op' = "send_batches"
    /\ IF no_batches(batches)
       THEN /\ ret' = Raise("ValueError")
            /\ http_log' = <<>>
       ELSE \E outcome \in [DOMAIN batches -> Outcomes] :
            /\ ret' = None
            /\ http_log' = put_requests(batches, outcome)
    /\ create_calls' = 0
    /\ UNCHANGED <<arg, input_rows, bad_stock_row, df, batches, disk>>

Next == LoadAndProcess \/ CreateBatches \/ SendBatches

Spec == Init /\ [][Next]_vars

RECURSIVE Concat(_)
Concat(bs) == IF bs = <<>> THEN <<>> ELSE bs[1].products \o Concat(Tail(bs))

\* C1: create_batches returns exactly ceil(n/1000) batches whose products,
\* concatenated in batch order, are the n records of the frame in order; every
\* batch but the last holds exactly 1000 records, the last between 1 and 1000.
C1_BatchesPartitionFrame ==
    (op = "create_batches" /\ ~IsRaise(ret)) =>
        LET n == Len(df.rows)
            returned == IF ret = SelfBatches THEN batches ELSE ret.list
            k == Len(returned)
        IN /\ k * BatchSize >= n
           /\ (k - 1) * BatchSize < n \/ (k = 0 /\ n = 0)
           /\ Concat(returned) = df.rows
           /\ \A j \in 1..(k - 1) : Len(returned[j].products) = BatchSize
           /\ k > 0 => Len(returned[k].products) \in 1..BatchSize

\* the 2500-record frame gives batches of 1000, 1000 and 500 records
C1_Witness ==
    /\ op = "create_batches"
    /\ df # None
    /\ Len(df.rows) = 2500
    /\ Len(batches) = 3
    /\ Len(batches[1].products) = 1000
    /\ Len(batches[2].products) = 1000
    /\ Len(batches[3].products) = 500

\* C2: the batch that starts at record offset i is written under sequence
\* number floor(i/1000) + 1; the numbers written are 1, 2, ..., k without gap
\* or repeat and each is the 1-based position of its batch in the returned
\* list, which is the index send_batches uses for that batch.
C2_SequenceNumbers ==
    /\ (op = "create_batches" /\ ~IsRaise(ret)) =>
        /\ DOMAIN disk = 1..Len(batches)
        /\ \A j \in DOMAIN batches :
            /\ disk[j] = batches[j]
            /\ batches[j].products[1] = df.rows[(j - 1) * BatchSize + 1]
    /\ (op = "send_batches" /\ ~IsRaise(ret)) =>
        /\ Len(http_log) = Len(batches)
        /\ \A r \in DOMAIN http_log :
            /\ http_log[r].i \in DOMAIN disk
            /\ http_log[r].body = disk[http_log[r].i]
            /\ http_log[r].body = batches[http_log[r].i]

\* three batches written as files 1, 2, 3 and sent as batches 1, 2, 3
C2_Witness ==
    /\ op = "send_batches"
    /\ Len(http_log) = 3
    /\ DOMAIN disk = 1..3
    /\ \A r \in 1..3 : http_log[r].i = r /\ http_log[r].body = disk[r]

\* C14 (as claimed): for a file of n >= 1 rows load_and_process does not raise
\* and leaves a frame of exactly n records in row order, record i being the
\* record of row i alone; the row whose stock cell is no number yields its
\* record too, with a null stock.
C14_EveryRowARecord ==
    (op = "load_and_process" /\ input_rows >= 1) =>
        /\ ~IsRaise(ret)
        /\ df # None
        /\ Len(df.rows) = input_rows
        /\ \A i \in 1..input_rows :
              LET expected == [row_record(i, 0) EXCEPT
                      !.internal_code = internal_code_formater(PyInt(FALSE, NatToStr(i)))]
              IN IF i = bad_stock_row
                 THEN df.rows[i] = [expected EXCEPT !.stock = None]
                 ELSE df.rows[i] = expected

\* C15: send_batches with k >= 1 batches issues exactly k requests, request i
\* carrying batch i, in list order; whether a request succeeds, is answered
\* with another status or raises, the following batches are still sent, none
\* is sent twice, and the call returns normally.
C15_EveryBatchSentOnce ==
    (op = "send_batches" /\ batches # <<>>) =>
        /\ ret = None
        /\ Len(http_log) = Len(batches)
        /\ \A i \in DOMAIN http_log :
              http_log[i].i = i /\ http_log[i].body = batches[i]

\* three batches: the first request raises, the second is refused, the third
\* succeeds
C15_Witness ==
    /\ op = "send_batches"
    /\ Len(http_log) = 3
    /\ http_log[1].outcome = "exception"
    /\ http_log[2].outcome = "not200"
    /\ http_log[3].outcome = "200"

\* C16: the batch list is empty from construction until create_batches is
\* called, and after create_batches ran without a frame or on a frame of zero
\* rows; whenever send_batches is called with the list empty it raises
\* ValueError and issues no request.
C16_EmptyListRaises ==
    /\ batches = <<>>
    /\ [][/\ (batches = <<>> /\ op' # "create_batches") => batches' = <<>>
          /\ (op' = "create_batches" /\ (df = None \/ Len(df.rows) = 0))
                => batches' = <<>>
          /\ (op' = "send_batches" /\ batches = <<>>)
                => (ret' = Raise("ValueError") /\ http_log' = <<>>)]_vars

\* send_batches has raised ValueError after create_batches ran on a frame of
\* zero rows
C16_Witness ==
    /\ op = "send_batches"
    /\ ret = Raise("ValueError")
    /\ http_log = <<>>
    /\ df # None
    /\ Len(df.rows) = 0
    /\ batches = <<>>

\* C17: a call of create_batches that follows a successful one leaves the
\* batch list as the first call left it (nothing added, nothing repeated), and
\* no call of create_batches changes the frame.
C17_CreateBatchesIdempotent ==
    [][op' = "create_batches" =>
          /\ df' = df
          /\ (op = "create_batches" /\ ~IsRaise(ret)) =>
                (batches' = batches /\ ~IsRaise(ret') /\ disk' = disk)]_vars

\* create_batches called twice in a row on the frame of 2500 records
C17_Witness ==
    /\ op = "create_batches"
    /\ create_calls >= 2
    /\ df # None
    /\ Len(batches) = 3
    /\ Concat(batches) = df.rows

-----------------------------------------------------------------------------
(* The pure functions are exercised one call at a time: Init draws the     *)
(* argument, the action applies the function.                              *)

Idle ==
    /\ input_rows = 0
    /\ bad_stock_row = 0
    /\ create_calls = 0
    /\ df = None
    /\ batches = <<>>
    /\ disk = <<>>
    /\ http_log = <<>>

IdleUnchanged ==
    UNCHANGED <<arg, input_rows, bad_stock_row, df, batches, disk, http_log,
                create_calls>>

Call(f, result) ==
    /\ op = "none"
    /\ op' = f
    /\ ret' = result
    /\ IdleUnchanged

\* "a b c" from <<a, b, c>>
RECURSIVE JoinWords(_)
JoinWords(ws) ==
    IF ws = <<>> THEN <<>>
    ELSE IF Len(ws) = 1 THEN ws[1]
    ELSE ws[1] \o <<" ">> \o JoinWords(Tail(ws))

MaxNameWords == 4

NameWords ==
    {<<"P", "a~", "o">>, <<"d", "e">>, <<"5">>, <<"5", "k", "g">>,
     <<"K", "G">>, <<"2", "l">>, <<"U", "n">>}

Names ==
    {NaN} \cup
    {Str(JoinWords(ws)) : ws \in UNION {[1..n -> NameWords] : n \in 0..MaxNameWords}}

InitUnit == op = "none" /\ ret = None /\ arg \in Names /\ Idle

CallInferUnitType == Call("infer_unit_type", infer_unit_type(arg))

SpecUnit == InitUnit /\ [][CallInferUnitType]_vars

NoRule1to4(s) == ~Rule1(s) /\ ~Rule2(s) /\ ~Rule3(s) /\ ~Rule4(s)

\* C3 (as claimed): a name that matches none of the unit-type rules 1-4 is
\* classified UNI when it has 4 or more whitespace-separated tokens and KG
\* otherwise.
C3_DefaultByWordCount ==
    (op = "infer_unit_type" /\ NoRule1to4(clean_name(arg)))
        => ret = (IF SplitCount(clean_name(arg)) >= 4 THEN "UNI" ELSE "KG")

\* C4: rules 1, 2, 3, 4 are tried in that order and the first match decides:
\* a match of rule 1, 2 or 3 gives UNI even when rule 4 matches too, and rule 4
\* decides (giving KG) exactly when it matches and none of rules 1-3 does.
C4_RuleOrder ==
    op = "infer_unit_type" =>
        LET s == clean_name(arg)
            early == Rule1(s) \/ Rule2(s) \/ Rule3(s)
        IN /\ early => ret = "UNI"
           /\ (Rule4(s) /\ ~early) => ret = "KG"
           /\ (infer_unit_decision(arg)[1] = 4) <=> (Rule4(s) /\ ~early)

\* a number-and-weight-unit name that also holds a standalone weight word
C4_Witness ==
    /\ op = "infer_unit_type"
    /\ Rule3(clean_name(arg))
    /\ Rule4(clean_name(arg))
    /\ ~Rule1(clean_name(arg))
    /\ ~Rule2(clean_name(arg))
    /\ ret = "UNI"

-----------------------------------------------------------------------------
(* The barcode column *)

MaxBarcodeDigits == 14

DigitOffsets == {0, 8, 9}
BarcodeFractions == {<<>>, <<"5">>, <<"2", "5">>}

\* what read_csv delivers for a cell of a numeric column: NaN for an empty cell,
\* an int64 or a float64
BarcodeValues ==
    {None, NaN}
    \cup {PyInt(neg, DigitRun(n, o)) :
            neg \in BOOLEAN, n \in 1..MaxBarcodeDigits, o \in DigitOffsets}
    \cup UNION {{PyFloat(neg, DigitRun(n, o), fp) :
                    neg \in BOOLEAN, n \in 1..MaxBarcodeDigits, o \in DigitOffsets}
                : fp \in BarcodeFractions}

InitBarcode == op = "none" /\ ret = None /\ arg \in BarcodeValues /\ Idle

CallBarcodes == Call("barcodes", barcodes_column(arg))

SpecBarcode == InitBarcode /\ [][CallBarcodes]_vars

\* the decimal string of a number truncated to an integer
TruncatedDecimalString(v) ==
    LET ds == IF IsInt(v) THEN v.int ELSE v.ip
    IN (IF v.neg /\ ~IsZeroDigits(ds) THEN <<"-">> ELSE <<>>) \o ds

\* C5: the barcodes field is empty or holds one string: it is empty for a null
\* source and for a value whose truncated decimal string is not exactly 8, 12
\* or 13 digits, and otherwise holds exactly that digit string.
C5_Barcodes ==
    op = "barcodes" =>
        /\ ~IsRaise(ret)
        /\ Len(ret.list) <= 1
        /\ pd_isnull(arg) => ret.list = <<>>
        /\ pd_notnull(arg) =>
            LET t == TruncatedDecimalString(arg)
            IN IF AllDigits(t) /\ Len(t) \in EanLengths
               THEN ret.list = <<t>>
               ELSE ret.list = <<>>

\* a 13-digit barcode stored as a float with a fraction yields its 13 digits
C5_Witness ==
    /\ op = "barcodes"
    /\ IsFloat(arg)
    /\ arg.fp # <<>>
    /\ Len(ret.list) = 1
    /\ Len(ret.list[1]) = 13

-----------------------------------------------------------------------------
(* The price columns *)

MaxPriceLen == 5

\* no digit 5: the strings have no exact rounding tie at the third decimal
PriceChars == {"0", "1", "9", ",", ".", "x"}

PriceStrings == UNION {[1..n -> PriceChars] : n \in 0..MaxPriceLen}

PriceValues == {None, NaN} \cup {Str(s) : s \in PriceStrings}

InitPrice == op = "none" /\ ret = None /\ arg \in PriceValues /\ Idle

CallPromoPriceFormater == Call("promo_price_formater", promo_price_formater(arg))

CallPriceFormater == Call("price_formater", price_formater(arg))

NextPrice == CallPromoPriceFormater \/ CallPriceFormater

SpecPrice == InitPrice /\ [][NextPrice]_vars

\* C6 (as claimed): for a non-null promotional price string other than "0",
\* promo_price_formater returns what price_formater returns for that string
\* (comma replaced by dot, parsed, rounded to 2 decimal places).
C6_PromoSameAsPrice ==
    (op = "promo_price_formater" /\ IsStr(arg) /\ arg # Str(<<"0">>))
        => ret = price_formater(arg)

\* the characters of s after its first decimal separator
FractionText(s) ==
    LET seps == {i \in DOMAIN s : s[i] \in {",", "."}}
    IN IF seps = {} THEN <<>>
       ELSE SubSeq(s, (CHOOSE i \in seps : \A j \in seps : i <= j) + 1, Len(s))

\* C6 (amended): for a non-null promotional price string other than "0",
\* promo_price_formater returns the string parsed as a decimal with comma for
\* dot and NOT rounded (every fraction digit written is kept); price_formater
\* returns that value rounded to 2 decimal places, so the two agree exactly
\* when the parsed value has at most 2 decimal places or does not parse.
C6_PromoUnrounded ==
    (op = "promo_price_formater" /\ IsStr(arg) /\ arg # Str(<<"0">>)) =>
        /\ IsFloat(ret) \/ IsNaN(ret)
        /\ IsFloat(ret) => ret.fp = StripTrailingZeros(FractionText(arg.str))
        /\ price_formater(arg) = round2(ret)
        /\ (ret = price_formater(arg)) <=> (IsNaN(ret) \/ Len(ret.fp) <= 2)

\* a promotional price with three decimals is returned with all three
C6_Witness ==
    /\ op = "promo_price_formater"
    /\ IsStr(arg)
    /\ IsFloat(ret)
    /\ Len(ret.fp) = 3
    /\ ret # price_formater(arg)

\* C11: promo_price_formater returns None when the source value is null (None
\* or NaN) and when it is the literal string "0".
C11_PromoNullOrZero ==
    (op = "promo_price_formater" /\ (pd_isnull(arg) \/ arg = Str(<<"0">>)))
        => ret = None

\* the promotional price "0" has been normalized, to None
C11_Witness ==
    /\ op = "promo_price_formater"
    /\ arg = Str(<<"0">>)
    /\ ret = None

-----------------------------------------------------------------------------
(* Every normalizer on every kind of raw column value *)

MaxRawLen == 2

RawChars == {"1", "0", ",", "x"}

\* what read_csv can deliver for a cell: NaN (empty), a string of an object
\* column, an int64 or a float64 (inf included) of a numeric column
RawValues ==
    {None, NaN, Inf}
    \cup {Str(s) : s \in UNION {[1..n -> RawChars] : n \in 0..MaxRawLen}}
    \cup {PyInt(neg, DigitRun(n, 0)) : neg \in BOOLEAN, n \in {1, 8}}
    \cup {PyFloat(neg, DigitRun(n, 0), <<"5">>) : neg \in BOOLEAN, n \in {1, 8}}

InitNorm == op = "none" /\ ret = None /\ arg \in RawValues /\ Idle

CallInternalCodeFormater ==
    Call("internal_code_formater", internal_code_formater(arg))

CallStockFormater == Call("stock_formater", stock_formater(arg))

NextNorm ==
    \/ CallBarcodes
    \/ CallPriceFormater
    \/ CallPromoPriceFormater
    \/ CallInternalCodeFormater
    \/ CallStockFormater

SpecNorm == InitNorm /\ [][NextNorm]_vars

Normalizers ==
    {"barcodes", "price_formater", "promo_price_formater",
     "internal_code_formater", "stock_formater"}

\* C7 (as claimed): every field normalizer is total: on every raw column value,
\* null, string or number, it returns a value or null and never raises.
C7_NormalizersTotal == op \in Normalizers => ~IsRaise(ret)

-----------------------------------------------------------------------------
(* The promotion period column *)

MaxSegments == 3

PtbrPrefixes == {<<>>, <<" ">>}
PtbrDays == {<<"5">>, <<"3", "1">>, <<"1", "2", "3">>}
PtbrMonths ==
    {<<"M", "A", "R">>, <<"m", "a", "r">>, <<"D", "e", "z">>,
     <<"X", "Y", "Z">>, <<"A", "G">>}
PtbrYears ==
    {<<"4">>, <<"2", "4">>, <<"0", "2", "4">>, <<"2", "0", "2", "4">>,
     <<"2", "0", "2", "4", "5">>}
PtbrSuffixes == {<<>>, <<"x">>, <<" ">>}

\* single-date strings, well formed and not
PtbrStrings ==
    UNION UNION UNION UNION
    {{{{{pre \o d \o <<"-">> \o mo \o <<"-">> \o y \o suf
            : pre \in PtbrPrefixes} : d \in PtbrDays} : mo \in PtbrMonths}
            : y \in PtbrYears} : suf \in PtbrSuffixes}

IsoSegments ==
    {<<>>,
     <<"2", "0", "2", "4", "-", "0", "3", "-", "0", "1">>,
     <<"2", "0", "2", "4", "-", "0", "2", "-", "2", "9">>,
     <<"2", "0", "2", "3", "-", "0", "2", "-", "2", "9">>,
     <<"2", "0", "2", "4", "-", "1", "3", "-", "0", "1">>,
     <<"2", "0", "2", "4", "-", "0", "4", "-", "3", "1">>,
     <<"3", "1", "-", "M", "A", "R", "-", "2", "4">>,
     <<"2", "0", "2", "4", "-", "0", "3", "-", "3", "1", "T",
       "1", "0", ":", "3", "0", ":", "0", "0">>,
     <<"2", "0", "2", "4", "-", "0", "3", "-", "3", "1", "T",
       "2", "5", ":", "0", "0", ":", "0", "0">>}

\* "a/b/c" from <<a, b, c>>
RECURSIVE JoinSlash(_)
JoinSlash(segs) ==
    IF Len(segs) = 1 THEN segs[1]
    ELSE segs[1] \o <<"/">> \o JoinSlash(Tail(segs))

\* range strings of 2..MaxSegments segments
RangeStrings ==
    {JoinSlash(segs) : segs \in UNION {[1..n -> IsoSegments] : n \in 2..MaxSegments}}

DateValues == {None, NaN} \cup {Str(s) : s \in PtbrStrings \cup RangeStrings}

InitDate == op = "none" /\ ret = None /\ arg \in DateValues /\ Idle

CallProcessPromoDates == Call("process_promo_dates", process_promo_dates(arg))

SpecDate == InitDate /\ [][CallProcessPromoDates]_vars

HasSlash(s) == \E i \in DOMAIN s : s[i] = "/"

\* s is exactly D-MMM-YY, DD-MMM-YY, D-MMM-YYYY or DD-MMM-YYYY with MMM a
\* Portuguese month abbreviation in any letter case
IsPtbrForm(s) ==
    \E dl \in 1..2 : \E yl \in {2, 4} :
        /\ Len(s) = dl + yl + 5
        /\ AllDigits(SubSeq(s, 1, dl))
        /\ s[dl + 1] = "-"
        /\ \E i \in DOMAIN MonthsPt : upper(SubSeq(s, dl + 2, dl + 4)) = MonthsPt[i]
        /\ s[dl + 5] = "-"
        /\ AllDigits(SubSeq(s, dl + 6, Len(s)))

\* C8 (as claimed): a promotion-period string without '/' that is not exactly
\* of the form DD-MMM-YY or DD-MMM-YYYY with a Portuguese month abbreviation
\* gives null for both promo_start_at and promo_end_at.
C8_MalformedGivesNulls ==
    (op = "process_promo_dates" /\ IsStr(arg) /\ ~HasSlash(arg.str)
        /\ ~IsPtbrForm(arg.str))
        => ret = Pair(None, None)

\* the 'YYYY-MM-DDT00:00:00' the parts of a well-formed single date stand for
ExpectedEnd(s) ==
    LET dl == (CHOOSE i \in DOMAIN s : s[i] = "-" /\ \A j \in 1..(i - 1) : s[j] # "-") - 1
        yy == SubSeq(s, dl + 6, Len(s))
        mon == CHOOSE i \in DOMAIN MonthsPt : upper(SubSeq(s, dl + 2, dl + 4)) = MonthsPt[i]
    IN (IF Len(yy) = 2 THEN <<"2", "0">> \o yy ELSE yy) \o <<"-">>
        \o (IF mon < 10 THEN <<"0", Digits[mon + 1]>> ELSE <<"1", Digits[mon - 9]>>)
        \o <<"-">>
        \o (IF dl = 1 THEN <<"0", s[1]>> ELSE <<s[1], s[2]>>)
        \o <<"T", "0", "0", ":", "0", "0", ":", "0", "0">>

\* C9: a string of the form DD-MMM-YY or DD-MMM-YYYY with a recognised month
\* abbreviation in any letter case gives promo_start_at null and promo_end_at
\* 'YYYY-MM-DDT00:00:00': month as its two-digit number, day zero-padded, a
\* 2-digit year YY as 20YY.
C9_SingleDate ==
    (op = "process_promo_dates" /\ IsStr(arg) /\ IsPtbrForm(arg.str))
        => ret = Pair(None, Str(ExpectedEnd(arg.str)))

\* "5-mar-24" gives (null, "2024-03-05T00:00:00")
C9_Witness ==
    /\ op = "process_promo_dates"
    /\ arg = Str(<<"5", "-", "m", "a", "r", "-", "2", "4">>)
    /\ ret = Pair(None, Str(<<"2", "0", "2", "4", "-", "0", "3", "-", "0", "5",
                              "T", "0", "0", ":", "0", "0", ":", "0", "0">>))

\* the text of s before its first '/'
BeforeFirstSlash(s) ==
    SubSeq(s, 1, (CHOOSE i \in DOMAIN s : s[i] = "/" /\ \A j \in 1..(i - 1) : s[j] # "/") - 1)
\* the text of s after its first '/'
AfterFirstSlash(s) ==
    SubSeq(s, (CHOOSE i \in DOMAIN s : s[i] = "/" /\ \A j \in 1..(i - 1) : s[j] # "/") + 1,
           Len(s))
\* the segment that follows the first '/'
SecondSegment(s) ==
    IF HasSlash(AfterFirstSlash(s)) THEN BeforeFirstSlash(AfterFirstSlash(s))
    ELSE AfterFirstSlash(s)

\* C10: for a string with '/', the segment before the first '/' gives
\* promo_start_at and the following segment promo_end_at, each parsed on its
\* own: a segment that does not parse makes its side null and leaves the other
\* side's ISO-8601 value, and no exception escapes.
C10_RangeSidesIndependent ==
    (op = "process_promo_dates" /\ IsStr(arg) /\ HasSlash(arg.str)) =>
        LET a == fromisoformat_isoformat(BeforeFirstSlash(arg.str))
            b == fromisoformat_isoformat(SecondSegment(arg.str))
        IN /\ ~IsRaise(ret)
           /\ ret.start = (IF IsRaise(a) THEN None ELSE a)
           /\ ret.end = (IF IsRaise(b) THEN None ELSE b)
           /\ BeforeFirstSlash(arg.str)
                  = <<"2", "0", "2", "4", "-", "0", "3", "-", "0", "1">>
              => ret.start = Str(<<"2", "0", "2", "4", "-", "0", "3", "-", "0", "1",
                                   "T", "0", "0", ":", "0", "0", ":", "0", "0">>)

\* the start segment fails to parse and the end segment is kept
C10_Witness ==
    /\ op = "process_promo_dates"
    /\ IsStr(arg)
    /\ HasSlash(arg.str)
    /\ IsRaise(fromisoformat_isoformat(BeforeFirstSlash(arg.str)))
    /\ ret.start = None
    /\ ret.end = Str(<<"2", "0", "2", "4", "-", "0", "3", "-", "3", "1",
                       "T", "1", "0", ":", "3", "0", ":", "0", "0">>)

-----------------------------------------------------------------------------
(* The weight read from the name *)

MaxWeightTokens == 5

\* the pieces the names are built of: digits, decimal separators, a blank and
\* the weight units (kg in mixed case), which serve as letters too
WeightTokens ==
    {<<"0">>, <<"1">>, <<"9">>, <<",">>, <<".">>, <<" ">>,
     <<"K", "g">>, <<"g">>}

\* the pieces written one after the other
RECURSIVE ConcatTokens(_)
ConcatTokens(ts) ==
    IF ts = <<>> THEN <<>> ELSE ts[1] \o ConcatTokens(Tail(ts))

WeightNames ==
    {NaN} \cup
    {Str(ConcatTokens(ts)) :
        ts \in UNION {[1..n -> WeightTokens] : n \in 0..MaxWeightTokens}}

InitWeight == op = "none" /\ ret = None /\ arg \in WeightNames /\ Idle

CallMeasureParser == Call("measure_parser", measure_parser(arg))

SpecWeight == InitWeight /\ [][CallMeasureParser]_vars

\* t is written digits, or digits, a dot or comma, digits
IsNumberText(t) ==
    \E k \in 1..Len(t) :
        /\ AllDigits(SubSeq(t, 1, k))
        /\ \/ k = Len(t)
           \/ /\ k + 2 <= Len(t)
              /\ t[k + 1] \in {".", ","}
              /\ AllDigits(SubSeq(t, k + 2, Len(t)))

\* the word kg or g starts at u: the unit, <<>> when there is none
UnitWordAt(s, u) ==
    IF MatchAt(s, u, <<"k", "g">>) /\ (u + 2 > Len(s) \/ ~IsWordChar(s[u + 2]))
    THEN <<"k", "g">>
    ELSE IF MatchAt(s, u, <<"g">>) /\ (u + 1 > Len(s) \/ ~IsWordChar(s[u + 1]))
    THEN <<"g">>
    ELSE <<>>

\* the occurrences <<p, e, u>> in s of a number s[p..e] not preceded by a
\* digit and followed, after blanks only, by the unit word kg or g at u
WeightOccurrences(s) ==
    {o \in (DOMAIN s) \X (DOMAIN s) \X (DOMAIN s) :
        /\ o[1] <= o[2] /\ o[2] < o[3]
        /\ IsDigit(s[o[1]])
        /\ o[1] = 1 \/ ~IsDigit(s[o[1] - 1])
        /\ UnitWordAt(s, o[3]) # <<>>
        /\ \A i \in (o[2] + 1)..(o[3] - 1) : IsSpace(s[i])
        /\ IsNumberText(SubSeq(s, o[1], o[2]))}

\* the digits of the number text t, and how many of them follow the separator
NumberDigits(t) == SelectSeq(t, IsDigit)
FractionLength(t) ==
    LET seps == {i \in DOMAIN t : t[i] \in {".", ","}}
    IN IF seps = {} THEN 0 ELSE Len(t) - (CHOOSE i \in seps : TRUE)

RECURSIVE Pow10(_)
Pow10(n) == IF n = 0 THEN 1 ELSE 10 * Pow10(n - 1)

\* the float x, of at most 3 decimal places, counted in thousandths
Thousandths(x) ==
    StrToNat(x.ip \o x.fp \o [i \in 1..(3 - Len(x.fp)) |-> "0"])

\* x is the number n / 10^d rounded to 3 decimal places
IsRoundedTo3(x, n, d) ==
    /\ IsFloat(x)
    /\ ~x.neg
    /\ Len(x.fp) <= 3
    /\ IF d <= 3 THEN Thousandths(x) * Pow10(d) = n * 1000
       ELSE LET diff == Thousandths(x) * Pow10(d - 3) - n
            IN 2 * diff <= Pow10(d - 3) /\ 2 * diff >= 0 - Pow10(d - 3)

\* C12: measure_parser sets weight from the first occurrence of a number (not
\* preceded by a digit) followed by the unit kg or g: the number itself for
\* kg, the number divided by 1000 for g, rounded to 3 decimal places; weight
\* is None when the name has no such occurrence.
C12_WeightFirstOccurrence ==
    op = "measure_parser" =>
        LET s == normalized_name(arg)
            occ == WeightOccurrences(s)
        IN IF occ = {} THEN ret.weight = None
           ELSE LET o == CHOOSE x \in occ : \A y \in occ : x[1] <= y[1]
                    t == SubSeq(s, o[1], o[2])
                    grams == UnitWordAt(s, o[3]) = <<"g">>
                IN IsRoundedTo3(ret.weight, StrToNat(NumberDigits(t)),
                                FractionLength(t) + (IF grams THEN 3 ELSE 0))

\* a name with two weights, the first one in grams with a digit beyond the
\* third decimal place of its value in kg
C12_Witness ==
    /\ op = "measure_parser"
    /\ IsStr(arg)
    /\ Cardinality(WeightOccurrences(normalized_name(arg))) >= 2
    /\ ret.weight = PyFloat(FALSE, <<"0">>, <<"0", "0", "2">>)

-----------------------------------------------------------------------------
(* The dimensions read from the name *)

MaxDimensionTokens == 5

\* the pieces the names are built of: a digit, a decimal separator, a blank,
\* the separators (x in upper case), the unit m alone, which serves as a letter
\* too, and numbers with the units cm and m
DimensionTokens ==
    {<<"1">>, <<",">>, <<" ">>, <<"X">>, <<"/">>, <<"m">>,
     <<"1", "c", "m">>, <<"9", "m">>}

DimensionNames ==
    {NaN} \cup
    {Str(ConcatTokens(ts)) :
        ts \in UNION {[1..n -> DimensionTokens] : n \in 0..MaxDimensionTokens}}

InitDimension == op = "none" /\ ret = None /\ arg \in DimensionNames /\ Idle

SpecDimension == InitDimension /\ [][CallMeasureParser]_vars

\* the number-unit segments of s: a number s[p..e] followed, after blanks
\* only, by the unit cm or m, the segment ending before index next
NumberUnitSegments(s) ==
    UNION {{[p |-> pe[1], e |-> pe[2], next |-> n] :
               n \in {m \in (pe[2] + 2)..(Len(s) + 1) :
                        \E u \in (pe[2] + 1)..(m - 1) :
                            /\ \A i \in (pe[2] + 1)..(u - 1) : IsSpace(s[i])
                            /\ SubSeq(s, u, m - 1) \in {<<"c", "m">>, <<"m">>}}} :
           pe \in {x \in (DOMAIN s) \X (DOMAIN s) :
                     /\ x[1] <= x[2]
                     /\ IsDigit(s[x[1]]) /\ IsDigit(s[x[2]])
                     /\ IsNumberText(SubSeq(s, x[1], x[2]))}}

\* only one separator /, x or X, with blanks around it or none, stands
\* between segment a and segment b
Separated(s, a, b) ==
    /\ a.next < b.p
    /\ \E q \in a.next..(b.p - 1) :
          /\ s[q] \in {"/", "x", "X"}
          /\ \A i \in a.next..(b.p - 1) : i # q => IsSpace(s[i])

\* x is the number written as the text t, comma or dot for the decimal point
IsNumberWritten(x, t) ==
    /\ IsFloat(x)
    /\ ~x.neg
    /\ Len(x.fp) <= FractionLength(t)
    /\ StrToNat(x.ip \o x.fp \o [i \in 1..(FractionLength(t) - Len(x.fp)) |-> "0"])
          = StrToNat(NumberDigits(t))

\* C13: measure_parser sets length and width to the first two numbers of the
\* first number-unit-separator-number-unit pattern (unit cm or m, the numbers
\* taken as written whatever the unit) and sets height, to the third number,
\* only when a separator and a third number-unit segment follow; without such
\* a pattern all three are None. So length is None exactly when width is, and
\* a height comes only with a length and a width.
C13_Dimensions ==
    op = "measure_parser" =>
        LET s == normalized_name(arg)
            segs == NumberUnitSegments(s)
            pairs == {ab \in segs \X segs : Separated(s, ab[1], ab[2])}
        IN /\ (ret.length = None) <=> (ret.width = None)
           /\ ret.height # None => (ret.length # None /\ ret.width # None)
           /\ IF pairs = {}
              THEN ret.length = None /\ ret.width = None /\ ret.height = None
              ELSE LET ab == CHOOSE x \in pairs : \A y \in pairs : x[1].p <= y[1].p
                       thirds == {c \in segs : Separated(s, ab[2], c)}
                   IN /\ IsNumberWritten(ret.length, SubSeq(s, ab[1].p, ab[1].e))
                      /\ IsNumberWritten(ret.width, SubSeq(s, ab[2].p, ab[2].e))
                      /\ IF thirds = {} THEN ret.height = None
                         ELSE \A c \in thirds :
                                IsNumberWritten(ret.height, SubSeq(s, c.p, c.e))

\* three dimensions, the first in cm and the second in m, each taken as written
C13_Witness ==
    /\ op = "measure_parser"
    /\ ret.length = PyFloat(FALSE, <<"1">>, <<>>)
    /\ ret.width = PyFloat(FALSE, <<"9">>, <<>>)
    /\ ret.height # None

====
